---- MODULE Spec2Model ----
(***************************************************************************)
(* Model of the KTW stock scraper (src/app.py): the HTTP handlers, the     *)
(* shared KTWScraper session, the per-SKU check_stock task and the thread  *)
(* pool fan-out of get_products_data.                                      *)
(*                                                                         *)
(* Text is modelled as a sequence of one-character strings, so that the    *)
(* parsers (int(), float()) and the formatter (str(float)) are computed.   *)
(***************************************************************************)
EXTENDS Integers, Sequences, FiniteSets, TLC

(***************************************************************************)
(* Bounds of the model                                                     *)
(***************************************************************************)
\* total number of SKUs of the requests being served at one time
MaxSkus == 2
\* the longest price text of a direct call of apply_discount, but for a prefix
MaxPriceLen == 3
\* the most tr rows of the stock table of a direct scan
MaxRows == 2

\* the cap of get_products on max_workers
MaxWorkersCap == 100
\* the default of get_products for max_workers
DefaultMaxWorkers == 10

(***************************************************************************)
(* Text helpers                                                            *)
(***************************************************************************)
DigitChars == <<"0", "1", "2", "3", "4", "5", "6", "7", "8", "9">>

IsDigit(c) == \E i \in 1..10 : DigitChars[i] = c

DigitVal(c) == (CHOOSE i \in 1..10 : DigitChars[i] = c) - 1

RECURSIVE DecVal(_)
\* value of a non-empty sequence of decimal digits
DecVal(ds) ==
    IF Len(ds) = 0 THEN 0
    ELSE 10 * DecVal(SubSeq(ds, 1, Len(ds) - 1)) + DigitVal(ds[Len(ds)])

AllDigits(ds) == Len(ds) > 0 /\ \A i \in 1..Len(ds) : IsDigit(ds[i])

RECURSIVE Pow10(_)
Pow10(n) == IF n = 0 THEN 1 ELSE 10 * Pow10(n - 1)

RECURSIVE NatStr(_)
\* decimal digits of a natural number
NatStr(n) ==
    IF n < 10 THEN <<DigitChars[n + 1]>>
    ELSE Append(NatStr(n \div 10), DigitChars[(n % 10) + 1])

RECURSIVE RemoveChar(_, _)
\* str.replace(c, '') for a one-character c
RemoveChar(s, c) ==
    IF Len(s) = 0 THEN <<>>
    ELSE IF s[1] = c THEN RemoveChar(Tail(s), c)
    ELSE <<s[1]>> \o RemoveChar(Tail(s), c)

RECURSIVE RemoveTHB(_)
\* str.replace('THB', ''): leftmost non-overlapping occurrences
RemoveTHB(s) ==
    IF Len(s) = 0 THEN <<>>
    ELSE IF Len(s) >= 3 /\ SubSeq(s, 1, 3) = <<"T", "H", "B">>
         THEN RemoveTHB(SubSeq(s, 4, Len(s)))
    ELSE <<s[1]>> \o RemoveTHB(Tail(s))

RECURSIVE LStrip(_)
LStrip(s) == IF Len(s) > 0 /\ s[1] = " " THEN LStrip(Tail(s)) ELSE s

RECURSIVE RStrip(_)
RStrip(s) ==
    IF Len(s) > 0 /\ s[Len(s)] = " " THEN RStrip(SubSeq(s, 1, Len(s) - 1)) ELSE s

\* str.strip()
Strip(s) == RStrip(LStrip(s))

UpperChars == <<"A", "C", "M", "E", "U", "N", "K", "O", "W">>
LowerChars == <<"a", "c", "m", "e", "u", "n", "k", "o", "w">>

LowerChar(c) ==
    IF \E i \in 1..Len(UpperChars) : UpperChars[i] = c
    THEN LowerChars[CHOOSE i \in 1..Len(UpperChars) : UpperChars[i] = c]
    ELSE c

\* str.lower()
Lower(s) == [i \in 1..Len(s) |-> LowerChar(s[i])]

RECURSIVE SplitWs(_, _)
\* str.split(): the whitespace-delimited tokens of s (cur is the token being read)
SplitWs(s, cur) ==
    IF Len(s) = 0 THEN (IF Len(cur) = 0 THEN <<>> ELSE <<cur>>)
    ELSE IF s[1] = " "
         THEN (IF Len(cur) = 0 THEN <<>> ELSE <<cur>>) \o SplitWs(Tail(s), <<>>)
    ELSE SplitWs(Tail(s), Append(cur, s[1]))

(***************************************************************************)
(* int(last_part): an optional sign and decimal digits; anything else      *)
(* raises ValueError                                                       *)
(***************************************************************************)
IntBody(tok) == IF Len(tok) > 0 /\ tok[1] \in {"+", "-"} THEN Tail(tok) ELSE tok

IntParses(tok) == AllDigits(IntBody(tok))

IntVal(tok) ==
    IF Len(tok) > 0 /\ tok[1] = "-" THEN 0 - DecVal(IntBody(tok))
    ELSE DecVal(IntBody(tok))

(***************************************************************************)
(* float(cleaned_price) for the plain decimal forms                        *)
(*   [sign] digits [ "." [digits] ]   and   [sign] "." digits              *)
(* A number is kept exactly, as mant / 10^scale.                           *)
(***************************************************************************)
DotPos(s) == IF \E i \in 1..Len(s) : s[i] = "."
             THEN CHOOSE i \in 1..Len(s) : s[i] = "." /\ \A j \in 1..(i - 1) : s[j] # "."
             ELSE 0

FloatIntPart(s) == IF DotPos(s) = 0 THEN s ELSE SubSeq(s, 1, DotPos(s) - 1)
FloatFracPart(s) == IF DotPos(s) = 0 THEN <<>> ELSE SubSeq(s, DotPos(s) + 1, Len(s))

\* a mutant of FloatParses: no digit is asked for
FloatParsesEmpty(s) ==
    LET b == IntBody(s)
        ip == FloatIntPart(b)
        fp == FloatFracPart(b)
    IN  /\ \A i \in 1..Len(ip) : IsDigit(ip[i])
        /\ \A i \in 1..Len(fp) : IsDigit(fp[i])

FloatParses(s) ==
    LET b == IntBody(s)
        ip == FloatIntPart(b)
        fp == FloatFracPart(b)
    IN  /\ Len(ip) + Len(fp) > 0
        /\ \A i \in 1..Len(ip) : IsDigit(ip[i])
        /\ \A i \in 1..Len(fp) : IsDigit(fp[i])

FloatVal(s) ==
    LET b == IntBody(s)
        ip == FloatIntPart(b)
        fp == FloatFracPart(b)
        m == DecVal(ip) * Pow10(Len(fp)) + DecVal(fp)
    IN  [mant |-> IF s[1] = "-" THEN 0 - m ELSE m, scale |-> Len(fp)]

(***************************************************************************)
(* str(x) of a float x = mant / 10^scale: the shortest decimal form, with  *)
(* at least one fractional digit ("900.0", "12.34")                        *)
(***************************************************************************)
RECURSIVE Normalize(_)
\* drop the trailing zeros of the fraction, keeping one fractional digit
Normalize(x) ==
    IF x.scale = 0 THEN [mant |-> x.mant * 10, scale |-> 1]
    ELSE IF x.scale > 1 /\ x.mant % 10 = 0
         THEN Normalize([mant |-> x.mant \div 10, scale |-> x.scale - 1])
    ELSE x

Abs(n) == IF n < 0 THEN 0 - n ELSE n

RECURSIVE ZeroPad(_, _)
ZeroPad(ds, n) == IF Len(ds) >= n THEN ds ELSE ZeroPad(<<"0">> \o ds, n)

FloatStr(x) ==
    LET n == Normalize(x)
        a == Abs(n.mant)
        p == Pow10(n.scale)
    IN  (IF n.mant < 0 THEN <<"-">> ELSE <<>>)
        \o NatStr(a \div p) \o <<".">> \o ZeroPad(NatStr(a % p), n.scale)

\* x * r, exactly
FloatMul(x, r) == [mant |-> x.mant * r.mant, scale |-> x.scale + r.scale]

\* round(x, 2): to the nearest hundredth, a tie going to the even hundredth
Round2(x) ==
    IF x.scale <= 2 THEN [mant |-> x.mant * Pow10(2 - x.scale), scale |-> 2]
    ELSE LET d == Pow10(x.scale - 2)
             a == Abs(x.mant)
             q == a \div d
             r == a % d
             up == (2 * r > d) \/ (2 * r = d /\ q % 2 = 1)
             c == IF up THEN q + 1 ELSE q
         IN  [mant |-> IF x.mant < 0 THEN 0 - c ELSE c, scale |-> 2]

(***************************************************************************)
(* Python values of the sale_price field: a float or a str, each kept as   *)
(* the text json would show                                                *)
(***************************************************************************)
PyFloat(x) == [t |-> "float", s |-> FloatStr(x)]
PyStr(s) == [t |-> "str", s |-> s]

Zero == [mant |-> 0, scale |-> 0]
One == [mant |-> 1, scale |-> 0]

\* the currency symbol (U+0E3F), one character
Baht == "<baht>"

(***************************************************************************)
(* xconfig: a dict that may hold SP_BRAND_DC_RATIO (brand -> ratio) and    *)
(* OTHER_BRAND_DC_RATIO (ratio)                                            *)
(***************************************************************************)
ConfigKeys == {"SP_BRAND_DC_RATIO", "OTHER_BRAND_DC_RATIO"}

\* the fallback of check_stock when xconfig.json cannot be loaded
DefaultXconfig ==
    [keys |-> ConfigKeys, SP_BRAND_DC_RATIO |-> <<>>, OTHER_BRAND_DC_RATIO |-> One]

Unknown == <<"u", "n", "k", "n", "o", "w", "n">>

\* a mutant of normalized_brand: the brand is looked up as it was scraped
normalized_brand_raw(brand) == IF Len(brand) > 0 THEN brand ELSE Unknown

\* brand.lower().strip() if brand else "unknown"
normalized_brand(brand) == IF Len(brand) > 0 THEN Strip(Lower(brand)) ELSE Unknown

\* a mutant of cleaned_price: the commas stay
cleaned_price_commas(price) == Strip(RemoveTHB(RemoveChar(price, Baht)))

\* price.replace(baht, '').replace('THB', '').replace(',', '').strip()
cleaned_price(price) == Strip(RemoveChar(RemoveTHB(RemoveChar(price, Baht)), ","))

apply_discount(price, brand, config) ==
    IF Len(price) = 0 THEN PyFloat(Zero)
    ELSE LET cleaned == cleaned_price(price)
         IN  IF ~FloatParses(cleaned) THEN PyStr(price)
             ELSE LET price_float == FloatVal(cleaned)
                  IN  IF ~(ConfigKeys \subseteq config.keys) THEN PyFloat(price_float)
                      ELSE LET discount_ratio ==
                                   IF normalized_brand(brand) \in DOMAIN config.SP_BRAND_DC_RATIO
                                   THEN config.SP_BRAND_DC_RATIO[normalized_brand(brand)]
                                   ELSE config.OTHER_BRAND_DC_RATIO
                           IN  PyStr(FloatStr(Round2(FloatMul(price_float, discount_ratio))))

(***************************************************************************)
(* The stock table of a product page                                       *)
(*   headers: the text of the th cells, in document order                  *)
(*   rows:    for every tr, the text of its td cells (the header row has   *)
(*            none)                                                        *)
(***************************************************************************)
\* the Thai label of the stock column, two stand-in characters
StockLabel == <<"<nai>", "<stock>">>

\* needle in hay, for str
IsSubstring(needle, hay) ==
    \E i \in 0..(Len(hay) - Len(needle)) : SubSeq(hay, i + 1, i + Len(needle)) = needle

\* the 0-based index of the stock column
StockIndex(headers) ==
    IF \E i \in 1..Len(headers) : IsSubstring(StockLabel, Strip(headers[i]))
    THEN (CHOOSE i \in 1..Len(headers) :
              /\ IsSubstring(StockLabel, Strip(headers[i]))
              /\ \A j \in 1..(i - 1) : ~IsSubstring(StockLabel, Strip(headers[j]))) - 1
    ELSE 1

\* what one row adds to stock_total
RowStock(cells, stock_index) ==
    IF Len(cells) > stock_index
    THEN LET stock_text == Strip(cells[stock_index + 1])
         IN  IF Len(stock_text) > 0
             THEN LET parts == SplitWs(stock_text, <<>>)
                      last_part == parts[Len(parts)]
                  IN  IF IntParses(last_part) THEN IntVal(last_part) ELSE 0
             ELSE 0
    ELSE 0

RECURSIVE SumRowsBreak(_, _)
\* a mutant of SumRows: a row without the stock cell ends the loop
SumRowsBreak(rows, stock_index) ==
    IF Len(rows) = 0 \/ Len(rows[1]) <= stock_index THEN 0
    ELSE RowStock(rows[1], stock_index) + SumRowsBreak(Tail(rows), stock_index)

RECURSIVE SumRows(_, _)
SumRows(rows, stock_index) ==
    IF Len(rows) = 0 THEN 0
    ELSE RowStock(rows[1], stock_index) + SumRows(Tail(rows), stock_index)

\* stock_total of a parsed product page
StockTotal(page) ==
    IF page.hasTable THEN SumRows(page.rows, StockIndex(page.headers)) ELSE 0

\* a mutant of StockStatus: the truth value of stock_total
StockStatusNonZero(stock_total) == IF stock_total # 0 THEN 1 ELSE 0

StockStatus(stock_total) == IF stock_total > 0 THEN 1 ELSE 0

(***************************************************************************)
(* The search page: a list of grid items, each with optional elements      *)
(***************************************************************************)
NoElem == [present |-> FALSE, text |-> <<>>]
Elem(text) == [present |-> TRUE, text |-> text]

EmptyInfo == [brand |-> <<>>, sale_price |-> <<>>, regular_price |-> <<>>]

ItemMatches(item, sku) == item.sku.present /\ IsSubstring(sku, Strip(item.sku.text))

ElemText(e) == IF e.present THEN Strip(e.text) ELSE <<>>

\* get_product_info_from_base_url(sku) on the response of the search page
get_product_info_from_base_url(sku, response) ==
    IF response.kind # "ok" THEN EmptyInfo
    ELSE LET items == response.items
         IN  IF \E i \in 1..Len(items) : ItemMatches(items[i], sku)
             THEN LET k == CHOOSE i \in 1..Len(items) :
                               /\ ItemMatches(items[i], sku)
                               /\ \A j \in 1..(i - 1) : ~ItemMatches(items[j], sku)
                  IN  [brand |-> ElemText(items[k].brand),
                       sale_price |-> ElemText(items[k].sale_price),
                       regular_price |-> ElemText(items[k].regular_price)]
             ELSE EmptyInfo

(***************************************************************************)
(* Records of check_stock                                                  *)
(***************************************************************************)
\* a mutant of FailedRecord: the non-ok branch returns an empty dict
FailedRecordEmpty(sku) == <<>>

\* the record of the non-ok branch
FailedRecord(sku) ==
    [sku |-> sku, brand |-> <<>>, stock_quantity |-> 0, stock_status |-> 0,
     sale_price |-> PyFloat(Zero), regular_price |-> <<>>]

\* the record of the except branch
ExceptRecord(sku) ==
    [sku |-> sku, brand |-> <<>>, stock_quantity |-> 0, stock_status |-> 0,
     sale_price |-> PyStr(<<>>), regular_price |-> <<>>]

\* product_data after the stock scan and the search page
ProductData(sku, stock_total, product_info, xconfig) ==
    [sku |-> sku,
     brand |-> product_info.brand,
     stock_quantity |-> stock_total,
     stock_status |-> StockStatus(stock_total),
     sale_price |-> apply_discount(product_info.sale_price, product_info.brand, xconfig),
     regular_price |-> product_info.regular_price]

\* json.load of xconfig.json, or the fallback
LoadXconfig(file) == IF file.readable THEN file.json ELSE DefaultXconfig

(***************************************************************************)
(* The site and the files: what a fetch can answer                         *)
(***************************************************************************)
SKUs == {<<"A">>, <<"B">>}

Stock3Rows ==
    [kind |-> "ok", hasTable |-> TRUE,
     headers |-> << <<"S", "i", "t", "e">>, <<"Q">>, StockLabel >>,
     rows |-> << <<>>,
                 << <<"H", "Q">>, <<"x">>, <<"1", "0">> >>,
                 << <<"N">>, <<"x">>, <<"a", "b", "c">> >>,
                 << <<"S">>, <<"x">>, <<" ", "p", "c", "s", " ", "5", " ">> >> >>]

StockNegative ==
    [kind |-> "ok", hasTable |-> TRUE,
     headers |-> << <<"S", "i", "t", "e">>, <<"Q">> >>,
     rows |-> << <<>>,
                 << <<"H", "Q">>, <<"2">> >>,
                 << <<"N">>, <<"-", "7">> >>,
                 << <<"S">> >> >>]

\* a table whose stock cells hold no integer: a word, a decimal, nothing
StockNoNumber ==
    [kind |-> "ok", hasTable |-> TRUE,
     headers |-> << StockLabel \o <<" ">>, <<"S", "i", "t", "e">> >>,
     rows |-> << << <<"a">>, <<"H", "Q">> >>,
                 << <<"1", ".", "5">>, <<"N">> >>,
                 << <<" ">>, <<"S">> >> >>]

\* a table with a signed cell and the label in the first header
StockPlus ==
    [kind |-> "ok", hasTable |-> TRUE,
     headers |-> << <<"(">> \o StockLabel \o <<")">>, <<"S", "i", "t", "e">> >>,
     rows |-> << << <<"+", "3">>, <<"9">> >>,
                 << <<"0", "4", " ", "x">>, <<"9">> >> >>]

NoStockTable == [kind |-> "ok", hasTable |-> FALSE, headers |-> <<>>, rows |-> <<>>]

StatusResponse == [kind |-> "status", hasTable |-> FALSE, headers |-> <<>>, rows |-> <<>>]

RaiseResponse == [kind |-> "raise", hasTable |-> FALSE, headers |-> <<>>, rows |-> <<>>]

\* what GET {shop_url}/ktw/th/THB/p/{sku} can answer
ProductResponses == {Stock3Rows, StockNegative, NoStockTable, StatusResponse, RaiseResponse,
                     StockNoNumber, StockPlus}

OtherSku(sku) == CHOOSE o \in SKUs : o # sku

SearchHit(sku) ==
    [kind |-> "ok",
     items |-> << [sku |-> NoElem, brand |-> Elem(<<"X">>),
                   sale_price |-> Elem(<<"1">>), regular_price |-> NoElem],
                  [sku |-> Elem(<<"<", " ">> \o OtherSku(sku)), brand |-> Elem(<<"O">>),
                   sale_price |-> Elem(<<"2">>), regular_price |-> Elem(<<"3">>)],
                  [sku |-> Elem(<<"#", " ">> \o sku \o <<" ">>),
                   brand |-> Elem(<<" ", "A", "c", "m", "e">>),
                   sale_price |-> Elem(<<Baht, "1", ",", "0", "0", "0", ".", "0", "0">>),
                   regular_price |-> Elem(<<Baht, "1", ",", "2", "0", "0">>)] >>]

\* the item of the SKU has a price that is no number, and no brand
SearchNoPrice(sku) ==
    [kind |-> "ok",
     items |-> << [sku |-> Elem(sku), brand |-> NoElem,
                   sale_price |-> Elem(<<"N", "/", "A">>),
                   regular_price |-> Elem(<<>>)] >>]

\* no item of the page is of the SKU
SearchNoItem(sku) ==
    [kind |-> "ok",
     items |-> << [sku |-> Elem(OtherSku(sku)), brand |-> Elem(<<"O">>),
                   sale_price |-> Elem(<<"5">>), regular_price |-> Elem(<<"6">>)] >>]

SearchStatus == [kind |-> "status", items |-> <<>>]

SearchRaise == [kind |-> "raise", items |-> <<>>]

\* what GET {base_url}/search/?...&text={sku} can answer
SearchResponses(sku) == {SearchHit(sku), SearchStatus, SearchRaise}

\* the same and more pages
AllSearchResponses(sku) ==
    SearchResponses(sku) \cup {SearchNoPrice(sku), SearchNoItem(sku)}

Acme == <<"a", "c", "m", "e">>

XconfigAcme ==
    [readable |-> TRUE,
     json |-> [keys |-> ConfigKeys,
               SP_BRAND_DC_RATIO |-> (Acme :> [mant |-> 9, scale |-> 1]),
               OTHER_BRAND_DC_RATIO |-> One]]

\* a file without the brand map
XconfigNoBrands ==
    [readable |-> TRUE,
     json |-> [keys |-> {"OTHER_BRAND_DC_RATIO"},
               SP_BRAND_DC_RATIO |-> <<>>,
               OTHER_BRAND_DC_RATIO |-> [mant |-> 95, scale |-> 2]]]

\* a file whose brand map has no entry for the brand of the pages
XconfigOther ==
    [readable |-> TRUE,
     json |-> [keys |-> ConfigKeys,
               SP_BRAND_DC_RATIO |-> (<<"o">> :> [mant |-> 5, scale |-> 1]),
               OTHER_BRAND_DC_RATIO |-> [mant |-> 95, scale |-> 2]]]

XconfigMissing == [readable |-> FALSE, json |-> DefaultXconfig]

\* the contents xconfig.json can have
XconfigFiles == {XconfigAcme, XconfigMissing}

\* the same and more contents
AllXconfigFiles == XconfigFiles \cup {XconfigNoBrands, XconfigOther}

(***************************************************************************)
(* The HTTP layer                                                          *)
(***************************************************************************)
\* the token of EXPECTED_AUTH, one word
EXPECTED_AUTH == "c2hvcF9tYW5hZ2VyMTooTFBySW0mKWdJcTk1N1VoMUQxdTF3d28="

\* Authorization headers a client can send: absent, or words and spaces
NoHeader == <<>>
Headers ==
    { NoHeader,
      <<"Basic", " ", EXPECTED_AUTH>>,
      <<"Basic", " ", EXPECTED_AUTH, " ", "x">>,
      <<"Basic", " ", "d3Jvbmc=">>,
      <<"Bearer", " ", EXPECTED_AUTH>> }

RECURSIVE SplitSpace(_, _)
\* str.split(' ') of a header given as words and spaces (a word is "" between
\* two spaces)
SplitSpace(h, cur) ==
    IF Len(h) = 0 THEN <<cur>>
    ELSE IF h[1] = " " THEN <<cur>> \o SplitSpace(Tail(h), "")
    ELSE SplitSpace(Tail(h), h[1])

\* token_required: TRUE when the wrapped handler is called
token_required(auth_header) ==
    /\ Len(auth_header) > 0
    /\ Len(auth_header) >= 2 /\ auth_header[1] = "Basic" /\ auth_header[2] = " "
    /\ SplitSpace(auth_header, "")[2] = EXPECTED_AUTH

\* max_workers of the body of POST /api/products: the key is absent or holds a
\* number
NoMaxWorkers == [given |-> FALSE, value |-> 0]
MaxWorkersValues == {[given |-> TRUE, value |-> n] : n \in {0, 1, 101}}

\* the same without a value above the cap, and with the key absent
DefaultOrSmall == {NoMaxWorkers} \cup {[given |-> TRUE, value |-> n] : n \in {0, 1}}

\* get_products: max_workers = min(data.get("max_workers", 10), 100)
ClampWorkers(m) ==
    LET given == IF m.given THEN m.value ELSE DefaultMaxWorkers
    IN  IF given < MaxWorkersCap THEN given ELSE MaxWorkersCap

(***************************************************************************)
(* State                                                                   *)
(***************************************************************************)
VARIABLES
    sessionValid,   \* the site holds the scraper's session as logged in
    xconfigFile,    \* the content of xconfig.json
    site,           \* per SKU, the answers the site can give for its two pages
    req,            \* per request thread of the server, the request it serves
    call            \* a direct call of a function of app.py: arguments and result

vars == <<sessionValid, xconfigFile, site, req, call>>

\* no function is called directly
NoCall == [fn |-> "none"]

\* the request threads of the server: r1 serves any request, and r2 serves
\* POST /login beside it
Reqs == {"r1", "r2"}

NoRecord == ExceptRecord(<<>>)

NoResp == [status |-> 0, body |-> "none", products |-> <<>>]

\* the login page as get_csrf_token sees it: the fetch raises, answers an error
\* status, or gives a page with or without input[name='CSRFToken'] and its value
NoPage == [kind |-> "none", hasInput |-> FALSE, value |-> <<>>]
LoginPages ==
    {[kind |-> "raise", hasInput |-> FALSE, value |-> <<>>],
     [kind |-> "status", hasInput |-> FALSE, value |-> <<>>],
     [kind |-> "ok", hasInput |-> FALSE, value |-> <<>>],
     [kind |-> "ok", hasInput |-> TRUE, value |-> <<>>],
     [kind |-> "ok", hasInput |-> TRUE, value |-> <<"t", "0", "k">>]}

\* a mutant of CsrfToken: the input is enough, whatever its value
CsrfTokenOfInput(page) ==
    IF page.kind = "ok" /\ page.hasInput
    THEN [some |-> TRUE, value |-> page.value]
    ELSE [some |-> FALSE, value |-> <<>>]

\* what get_csrf_token returns: the value of the input, or None
CsrfToken(page) ==
    IF page.kind = "ok" /\ page.hasInput /\ Len(page.value) > 0
    THEN [some |-> TRUE, value |-> page.value]
    ELSE [some |-> FALSE, value |-> <<>>]

IdleReq ==
    [kind |-> "none", pc |-> "idle", auth_header |-> NoHeader, loginPage |-> NoPage,
     sku_list |-> <<>>, m |-> NoMaxWorkers,
     probe |-> "none", login |-> "none", csrfGets |-> 0, loginPosts |-> 0,
     tasks |-> <<>>, order |-> <<>>, snap |-> {}, yielded |-> <<>>,
     results |-> <<>>, resp |-> NoResp, count |-> 0]

\* a submitted check_stock(sku) that no worker runs yet
NewTask(sku) ==
    [sku |-> sku, st |-> "queued", xconfig |-> DefaultXconfig, stock_total |-> 0,
     productGets |-> 0, productPage |-> "none", searchGets |-> 0, result |-> NoRecord]

RECURSIVE SeqsUpTo(_, _)
\* the sequences over S of length at most n
SeqsUpTo(S, n) ==
    IF n = 0 THEN {<<>>}
    ELSE LET shorter == SeqsUpTo(S, n - 1)
         IN  shorter \cup {Append(q, x) : q \in {t \in shorter : Len(t) = n - 1}, x \in S}

\* the answers the site can give to the fetch of the product page of sku
GetProductPage(sku) == site[sku].products

\* the answers the site can give to the search for sku
GetSearchPage(sku) == site[sku].searches

\* any fetch can succeed, answer a non-success status, or raise
AnySite ==
    [sku \in SKUs |-> [products |-> {Stock3Rows, StatusResponse, RaiseResponse},
                       searches |-> SearchResponses(sku)]]

\* the same with every page of the model
AllPagesSite ==
    [sku \in SKUs |-> [products |-> ProductResponses,
                       searches |-> AllSearchResponses(sku)]]

Init ==
    /\ sessionValid = FALSE
    /\ xconfigFile = XconfigAcme
    /\ site = AnySite
    /\ req = [r \in Reqs |-> IdleReq]
    /\ call = NoCall

Set(r, q) == req' = [req EXCEPT ![r] = q]

Respond(q, status, body, products) ==
    [q EXCEPT !.pc = "done",
              !.resp = [status |-> status, body |-> body, products |-> products],
              !.count = IF body = "products" THEN Len(products) ELSE 0]

(***************************************************************************)
(* Requests arrive                                                         *)
(***************************************************************************)
\* the protected routes: POST /api/products and GET /api/product/<sku>
Protected == {"products", "product"}

\* a request for one of these protected routes arrives: Flask calls the wrapper
\* of token_required, which reads the Authorization header
Request(r, routes) ==
    /\ req[r].pc = "idle"
    /\ \E kind \in routes, auth_header \in Headers :
          Set(r, [IdleReq EXCEPT !.kind = kind, !.pc = "token_required",
                                 !.auth_header = auth_header])
    /\ UNCHANGED <<sessionValid, xconfigFile, site, call>>

\* POST /api/products, through token_required: 401, or get_products reads the
\* body, whose max_workers is one of workers (the handler does not read the
\* header)
Receive_get_products(r, workers) ==
    /\ req[r].pc = "token_required" /\ req[r].kind = "products"
    /\ IF token_required(req[r].auth_header)
       THEN \E sku_ids \in SeqsUpTo(SKUs, MaxSkus), m \in workers :
               Set(r, [req[r] EXCEPT !.pc = "is_logged_in", !.auth_header = NoHeader,
                                     !.sku_list = sku_ids, !.m = m])
       ELSE Set(r, Respond(req[r], 401, "unauthorized", <<>>))
    /\ UNCHANGED <<sessionValid, xconfigFile, site, call>>

\* GET /api/product/<sku>, through token_required: 401, or get_single_product
\* is called with the sku of the path
Receive_get_single_product(r) ==
    /\ req[r].pc = "token_required" /\ req[r].kind = "product"
    /\ IF token_required(req[r].auth_header)
       THEN \E sku \in SKUs :
               Set(r, [req[r] EXCEPT !.pc = "is_logged_in", !.auth_header = NoHeader,
                                     !.sku_list = <<sku>>])
       ELSE Set(r, Respond(req[r], 401, "unauthorized", <<>>))
    /\ UNCHANGED <<sessionValid, xconfigFile, site, call>>

\* GET /health: no decorator, the header is not read
health_check(r) ==
    /\ req[r].pc = "idle"
    /\ \E auth_header \in Headers :
          Set(r, Respond([IdleReq EXCEPT !.kind = "health", !.auth_header = auth_header],
                         200, "health", <<>>))
    /\ UNCHANGED <<sessionValid, xconfigFile, site, call>>

\* POST /login
Receive_api_login(r) ==
    /\ req[r].pc = "idle"
    /\ Set(r, [IdleReq EXCEPT !.kind = "login", !.pc = "get_csrf_token"])
    /\ UNCHANGED <<sessionValid, xconfigFile, site, call>>

(***************************************************************************)
(* The session: is_logged_in, login, verify_login                          *)
(***************************************************************************)
\* the caller of is_logged_in or login goes on as logged in
LoggedIn(q) ==
    IF q.kind = "products" THEN [q EXCEPT !.pc = "submit"]
    ELSE IF q.kind = "product"
         THEN [q EXCEPT !.pc = "check_stock", !.tasks = <<NewTask(q.sku_list[1])>>]
    ELSE Respond(q, 200, "login_success", <<>>)

\* login() returned True to its caller
LoginOk(q) == LoggedIn([q EXCEPT !.login = "ok"])

\* a mutant of LoginFailed: get_products_data goes on to the pool
LoginFailedGoesOn(q) == LoggedIn([q EXCEPT !.login = "failed"])

\* login() returned False to its caller
LoginFailed(q) ==
    LET a == [q EXCEPT !.login = "failed"]
    IN  IF q.kind = "products" THEN Respond(a, 200, "products", <<>>)
        ELSE IF q.kind = "product" THEN Respond(a, 500, "error", <<>>)
        ELSE Respond(a, 401, "login_failed", <<>>)

\* a mutant of is_logged_in: its caller logs in whatever the probe says
is_logged_in_ignored(r) ==
    /\ req[r].pc = "is_logged_in"
    /\ \E ok \in (IF sessionValid THEN BOOLEAN ELSE {FALSE}) :
          Set(r, [req[r] EXCEPT !.probe = IF ok THEN "ok" ELSE "failed",
                                !.pc = "get_csrf_token"])
    /\ UNCHANGED <<sessionValid, xconfigFile, site, call>>

\* the probe of the home page: the markers are there only for a valid session, and
\* the fetch can fail
is_logged_in(r) ==
    /\ req[r].pc = "is_logged_in"
    /\ \E ok \in (IF sessionValid THEN BOOLEAN ELSE {FALSE}) :
          IF ok THEN Set(r, LoggedIn([req[r] EXCEPT !.probe = "ok"]))
          ELSE Set(r, [req[r] EXCEPT !.probe = "failed", !.pc = "get_csrf_token"])
    /\ UNCHANGED <<sessionValid, xconfigFile, site, call>>

\* the fetch of the login page: a token, or None
get_csrf_token(r) ==
    /\ req[r].pc = "get_csrf_token"
    /\ \E page \in LoginPages :
          LET q == [req[r] EXCEPT !.csrfGets = @ + 1, !.loginPage = page]
              csrf_token == CsrfToken(page)
          IN  IF csrf_token.some THEN Set(r, [q EXCEPT !.pc = "j_spring_security_check"])
              ELSE Set(r, LoginFailed(q))
    /\ UNCHANGED <<sessionValid, xconfigFile, site, call>>

\* the POST of the credentials: it raises, or the site accepts or refuses them
login_post(r) ==
    /\ req[r].pc = "j_spring_security_check"
    /\ LET q == [req[r] EXCEPT !.loginPosts = @ + 1]
       IN  \E outcome \in {"raise", "accepted", "refused"} :
              /\ sessionValid' = IF outcome = "accepted" THEN TRUE ELSE sessionValid
              /\ IF outcome = "raise" THEN Set(r, LoginFailed(q))
                 ELSE Set(r, [q EXCEPT !.pc = "verify_login"])
    /\ UNCHANGED <<xconfigFile, site, call>>

\* the fetch of the account page
verify_login(r) ==
    /\ req[r].pc = "verify_login"
    /\ \E ok \in (IF sessionValid THEN BOOLEAN ELSE {FALSE}) :
          IF ok THEN Set(r, LoginOk(req[r]))
          ELSE Set(r, LoginFailed(req[r]))
    /\ UNCHANGED <<sessionValid, xconfigFile, site, call>>

(***************************************************************************)
(* get_products_data: the pool, the tasks, as_completed                    *)
(***************************************************************************)
Running(q) == {i \in 1..Len(q.tasks) : q.tasks[i].st \in {"loaded", "fetched"}}

Queued(q) == {i \in 1..Len(q.tasks) : q.tasks[i].st = "queued"}

Finished(q) == {i \in 1..Len(q.tasks) : q.tasks[i].st = "done"}

\* a mutant of PoolSize: a thread per submitted task
PoolPerTask(q) == Len(q.tasks)

\* the threads a pool of this request may run at once (check_stock of a single
\* request runs on the request's own thread)
PoolSize(q) == IF q.kind = "products" THEN ClampWorkers(q.m) ELSE 1

\* ThreadPoolExecutor(max_workers) raises ValueError for max_workers <= 0;
\* otherwise every SKU of sku_list is submitted
submit(r) ==
    /\ req[r].pc = "submit"
    /\ IF ClampWorkers(req[r].m) <= 0
       THEN Set(r, Respond(req[r], 500, "error", <<>>))
       ELSE Set(r, [req[r] EXCEPT
                       !.pc = "submitted",
                       !.tasks = [i \in 1..Len(req[r].sku_list) |->
                                      NewTask(req[r].sku_list[i])]])
    /\ UNCHANGED <<sessionValid, xconfigFile, site, call>>

\* a task of request r can take a step
TasksLive(r) == req[r].pc \in {"submitted", "collect", "check_stock"}

\* a mutant of Done: the tasks write one shared record
DoneSharedRecord(q, i, record) ==
    [q EXCEPT !.tasks = [j \in 1..Len(q.tasks) |->
                            IF j = i \/ q.tasks[j].st = "done"
                            THEN [q.tasks[j] EXCEPT !.st = "done", !.result = record]
                            ELSE q.tasks[j]],
              !.order = Append(@, i)]

\* task i reached its return: the future is done
Done(q, i, record) ==
    [q EXCEPT !.tasks[i].st = "done", !.tasks[i].result = record,
              !.order = Append(@, i)]

\* a free worker takes the oldest queued task, and check_stock loads xconfig.json
check_stock_load(r, i) ==
    /\ TasksLive(r)
    /\ i \in Queued(req[r])
    /\ \A j \in Queued(req[r]) : i <= j
    /\ Cardinality(Running(req[r])) < PoolSize(req[r])
    /\ Set(r, [req[r] EXCEPT !.tasks[i].st = "loaded",
                             !.tasks[i].xconfig = LoadXconfig(xconfigFile)])
    /\ UNCHANGED <<sessionValid, xconfigFile, site, call>>

\* check_stock fetches the product page and scans the stock table
check_stock_product(r, i) ==
    /\ TasksLive(r)
    /\ i \in 1..Len(req[r].tasks)
    /\ req[r].tasks[i].st = "loaded"
    /\ LET sku == req[r].tasks[i].sku
       IN  \E response \in GetProductPage(sku) :
              LET q == [req[r] EXCEPT !.tasks[i].productGets = @ + 1,
                                      !.tasks[i].productPage = response.kind]
              IN  IF response.kind = "raise" THEN Set(r, Done(q, i, ExceptRecord(sku)))
                  ELSE IF response.kind # "ok" THEN Set(r, Done(q, i, FailedRecord(sku)))
                  ELSE Set(r, [q EXCEPT !.tasks[i].st = "fetched",
                                        !.tasks[i].stock_total = StockTotal(response)])
    /\ UNCHANGED <<sessionValid, xconfigFile, site, call>>

\* check_stock fetches the search page, applies the discount and returns
check_stock_search(r, i) ==
    /\ TasksLive(r)
    /\ i \in 1..Len(req[r].tasks)
    /\ req[r].tasks[i].st = "fetched"
    /\ LET t == req[r].tasks[i]
           q == [req[r] EXCEPT !.tasks[i].searchGets = @ + 1]
       IN  \E response \in GetSearchPage(t.sku) :
              Set(r, Done(q, i, ProductData(t.sku, t.stock_total,
                                            get_product_info_from_base_url(t.sku, response),
                                            t.xconfig)))
    /\ UNCHANGED <<sessionValid, xconfigFile, site, call>>

\* as_completed(future_to_sku) is called: the futures done by now are yielded
\* first, in the order of a set; the others in the order they complete
as_completed(r) ==
    /\ req[r].pc = "submitted"
    /\ Set(r, [req[r] EXCEPT !.pc = "collect", !.snap = Finished(req[r])])
    /\ UNCHANGED <<sessionValid, xconfigFile, site, call>>

Range(f) == {f[i] : i \in DOMAIN f}

\* the futures as_completed can yield next
NextYield(q) ==
    LET early == q.snap \ Range(q.yielded)
        late == [k \in 1..Len(q.order) |-> q.order[k]]
        waiting == {k \in 1..Len(late) : late[k] \notin q.snap /\ late[k] \notin Range(q.yielded)}
    IN  IF early # {} THEN early
        ELSE {late[k] : k \in {k \in waiting : \A j \in waiting : k <= j}}

\* a mutant of Truthy: a record of no stock counts as empty
TruthyInStock(product_data) == product_data.stock_status = 1

\* if product_data:
Truthy(product_data) == DOMAIN product_data # {}

\* one turn of the loop over as_completed
collect(r) ==
    /\ req[r].pc = "collect"
    /\ \E i \in NextYield(req[r]) :
          LET product_data == req[r].tasks[i].result
          IN  Set(r, [req[r] EXCEPT
                         !.yielded = Append(@, i),
                         !.results = IF Truthy(product_data)
                                     THEN Append(@, product_data) ELSE @])
    /\ UNCHANGED <<sessionValid, xconfigFile, site, call>>

\* a mutant of get_products_return: the return is inside the loop over as_completed
get_products_return_in_loop(r) ==
    /\ req[r].pc = "collect"
    /\ Len(req[r].yielded) >= 1
    /\ Set(r, Respond([req[r] EXCEPT !.tasks = <<>>, !.snap = {}, !.yielded = <<>>],
                       200, "products", req[r].results))
    /\ UNCHANGED <<sessionValid, xconfigFile, site, call>>

\* every future was yielded: get_products_data returns results (its locals are
\* gone), and get_products answers
get_products_return(r) ==
    /\ req[r].pc = "collect"
    /\ Len(req[r].yielded) = Len(req[r].tasks)
    /\ Set(r, Respond([req[r] EXCEPT !.tasks = <<>>, !.snap = {}, !.yielded = <<>>],
                       200, "products", req[r].results))
    /\ UNCHANGED <<sessionValid, xconfigFile, site, call>>

\* check_stock returned to get_single_product, which answers
get_single_product_return(r) ==
    /\ req[r].pc = "check_stock"
    /\ req[r].tasks[1].st = "done"
    /\ Set(r, Respond([req[r] EXCEPT !.tasks = <<>>],
                       200, "product", <<req[r].tasks[1].result>>))
    /\ UNCHANGED <<sessionValid, xconfigFile, site, call>>

\* the response was sent: the thread is free for the next request
Finish(r) ==
    /\ req[r].pc = "done"
    /\ Set(r, IdleReq)
    /\ UNCHANGED <<sessionValid, xconfigFile, site, call>>

(***************************************************************************)
(* The environment                                                         *)
(***************************************************************************)
\* xconfig.json is rewritten, removed or restored
XconfigChange ==
    /\ \E file \in XconfigFiles \ {xconfigFile} : xconfigFile' = file
    /\ UNCHANGED <<sessionValid, site, req, call>>

\* the site ends the session
SessionExpire ==
    /\ sessionValid
    /\ sessionValid' = FALSE
    /\ UNCHANGED <<xconfigFile, site, req, call>>

\* a login served by another thread, from its first fetch to its answer
OtherLogin ==
    /\ \E valid \in {sessionValid, TRUE} : sessionValid' = valid
    /\ UNCHANGED <<xconfigFile, site, req, call>>

\* the steps of the thread that serves request after request
Serve(r) ==
    \/ Request(r, Protected)
    \/ health_check(r)
    \/ Receive_get_products(r, MaxWorkersValues)
    \/ Receive_get_single_product(r)
    \/ Receive_api_login(r)
    \/ is_logged_in(r)
    \/ get_csrf_token(r)
    \/ login_post(r)
    \/ verify_login(r)
    \/ submit(r)
    \/ \E i \in 1..MaxSkus : check_stock_load(r, i)
    \/ \E i \in 1..MaxSkus : check_stock_product(r, i)
    \/ \E i \in 1..MaxSkus : check_stock_search(r, i)
    \/ as_completed(r)
    \/ collect(r)
    \/ get_products_return(r)
    \/ get_single_product_return(r)
    \/ Finish(r)

\* the steps of a thread that serves GET /api/product/<sku> only
ServeSingle(r) ==
    \/ Request(r, {"product"})
    \/ Receive_get_single_product(r)
    \/ is_logged_in(r)
    \/ get_csrf_token(r)
    \/ login_post(r)
    \/ verify_login(r)
    \/ check_stock_load(r, 1)
    \/ check_stock_product(r, 1)
    \/ check_stock_search(r, 1)
    \/ get_single_product_return(r)
    \/ Finish(r)

\* the steps of a thread that serves POST /api/products only
ServeBatch(r) ==
    \/ Request(r, {"products"})
    \/ Receive_get_products(r, DefaultOrSmall)
    \/ is_logged_in(r)
    \/ get_csrf_token(r)
    \/ login_post(r)
    \/ verify_login(r)
    \/ submit(r)
    \/ \E i \in 1..MaxSkus : check_stock_load(r, i)
    \/ \E i \in 1..MaxSkus : check_stock_product(r, i)
    \/ \E i \in 1..MaxSkus : check_stock_search(r, i)
    \/ as_completed(r)
    \/ collect(r)
    \/ get_products_return(r)
    \/ Finish(r)

\* the steps of a thread that serves POST /login only
ServeLogin(r) ==
    \/ Receive_api_login(r)
    \/ get_csrf_token(r)
    \/ login_post(r)
    \/ verify_login(r)
    \/ Finish(r)

Next ==
    \/ Serve("r1")
    \/ SessionExpire
    \/ OtherLogin

Spec == Init /\ [][Next]_vars

\* the same with POST /login served step by step on a second thread
NextThreaded ==
    \/ Serve("r1")
    \/ ServeLogin("r2")
    \/ XconfigChange
    \/ SessionExpire

SpecThreaded == Init /\ [][NextThreaded]_vars

\* check_stock one SKU at a time, over every page and every xconfig.json of the
\* model
InitData ==
    /\ sessionValid = FALSE
    /\ xconfigFile \in AllXconfigFiles
    /\ site = AllPagesSite
    /\ req = [r \in Reqs |-> IdleReq]
    /\ call = NoCall

NextData ==
    \/ ServeSingle("r1")
    \/ SessionExpire

SpecData == InitData /\ [][NextData]_vars

\* a site whose pages of the first SKU fail in every way (a product page that
\* answers an error or raises, a stock cell and a price that are no numbers, a
\* search page that raises), and whose pages of the other SKUs are sound but for
\* a search page that can answer an error
DegradedSite ==
    [sku \in SKUs |->
        IF sku = <<"A">>
        THEN [products |-> {Stock3Rows, StatusResponse, RaiseResponse},
              searches |-> {SearchNoPrice(sku), SearchRaise}]
        ELSE [products |-> {Stock3Rows},
              searches |-> {SearchHit(sku), SearchStatus}]]

\* batches only, on a session that is logged in
InitDegraded ==
    /\ sessionValid = TRUE
    /\ xconfigFile = XconfigAcme
    /\ site = DegradedSite
    /\ req = [r \in Reqs |-> IdleReq]
    /\ call = NoCall

NextDegraded ==
    \/ ServeBatch("r1")
    \/ SessionExpire

SpecDegraded == InitDegraded /\ [][NextDegraded]_vars

\* a step of a dispatched batch: a worker goes on with a task, or the request
\* thread goes on with the loop over as_completed
BatchStep(r) ==
    \/ \E i \in 1..MaxSkus : check_stock_load(r, i)
    \/ \E i \in 1..MaxSkus : check_stock_product(r, i)
    \/ \E i \in 1..MaxSkus : check_stock_search(r, i)
    \/ as_completed(r)
    \/ collect(r)
    \/ get_products_return(r)

\* the product fetch answers a page without stock table or raises; the search
\* answers an error status or raises
BareSite ==
    [sku \in SKUs |-> [products |-> {NoStockTable, RaiseResponse},
                       searches |-> {SearchStatus, SearchRaise}]]

InitBare ==
    /\ sessionValid = TRUE
    /\ xconfigFile = XconfigAcme
    /\ site = BareSite
    /\ req = [r \in Reqs |-> IdleReq]
    /\ call = NoCall

\* every fetch returns or raises and the threads are scheduled fairly: a batch
\* that can take a step takes one
SpecBareFair == InitBare /\ [][NextDegraded]_vars /\ WF_vars(BatchStep("r1"))

(***************************************************************************)
(* Direct calls of apply_discount                                          *)
(***************************************************************************)
PriceChars == {"1", "2", ".", ",", "-", " ", Baht}

\* the price texts: every text of PriceChars up to MaxPriceLen, alone and after
\* "THB"
Prices ==
    {prefix \o body : prefix \in {<<>>, <<"T", "H", "B">>},
                      body \in SeqsUpTo(PriceChars, MaxPriceLen)}

Brands ==
    {<<>>, <<" ", "A", "c", "M", "e", " ">>, <<"a", "c", "m", "e">>, <<"O">>, <<" ">>}

\* a config whose brand map holds the sentinel and the empty name
XconfigUnknown ==
    [keys |-> ConfigKeys,
     SP_BRAND_DC_RATIO |-> (Unknown :> [mant |-> 8, scale |-> 1]) @@
                           (<<>> :> [mant |-> 9, scale |-> 1]),
     OTHER_BRAND_DC_RATIO |-> One]

\* the configs: three with both sections, one without the brand map
Configs == {XconfigAcme.json, DefaultXconfig, XconfigUnknown, XconfigNoBrands.json}

NoResult == PyStr(<<"?">>)

InitCalls ==
    /\ sessionValid = FALSE
    /\ xconfigFile = XconfigAcme
    /\ site = AnySite
    /\ req = [r \in Reqs |-> IdleReq]
    /\ call \in {[fn |-> "apply_discount", price |-> price, brand |-> brand,
                   config |-> config, returned |-> FALSE, result |-> NoResult] :
                     price \in Prices, brand \in Brands, config \in Configs}

\* apply_discount(price, brand, config) runs and returns
Call_apply_discount ==
    /\ call.fn = "apply_discount" /\ ~call.returned
    /\ call' = [call EXCEPT !.returned = TRUE,
                            !.result = apply_discount(call.price, call.brand, call.config)]
    /\ UNCHANGED <<sessionValid, xconfigFile, site, req>>

NextCalls == Call_apply_discount

SpecCalls == InitCalls /\ [][NextCalls]_vars

(***************************************************************************)
(* Direct scans of a stock table                                           *)
(***************************************************************************)
\* the text of a td cell
Cells == {<<"7">>, <<"a">>, <<" ", "x", " ", "5", " ">>, <<"-", "2">>, <<>>}

\* the td cells of a tr: none (a header row), one, two, or three
TableRows ==
    SeqsUpTo(Cells, 2) \cup {<<(<<"a">>), (<<"a">>), cell>> : cell \in Cells}

\* the th cells of the table
TableHeaders ==
    {<<>>,
     << <<"S">>, <<"Q">> >>,
     << StockLabel, <<"Q">> >>,
     << <<"S">>, <<"Q">>, <<" ", "(">> \o StockLabel \o <<")">> >>,
     << <<"S">>, StockLabel \o <<" ">>, StockLabel >>}

InitScans ==
    /\ sessionValid = FALSE
    /\ xconfigFile = XconfigAcme
    /\ site = AnySite
    /\ req = [r \in Reqs |-> IdleReq]
    /\ call \in {[fn |-> "stock_total",
                   page |-> [kind |-> "ok", hasTable |-> TRUE,
                             headers |-> headers, rows |-> rows],
                   returned |-> FALSE, result |-> 0] :
                     headers \in TableHeaders, rows \in SeqsUpTo(TableRows, MaxRows)}

\* the scan of the stock table in check_stock runs to its end
Call_stock_total ==
    /\ call.fn = "stock_total" /\ ~call.returned
    /\ call' = [call EXCEPT !.returned = TRUE, !.result = StockTotal(call.page)]
    /\ UNCHANGED <<sessionValid, xconfigFile, site, req>>

NextScans == Call_stock_total

SpecScans == InitScans /\ [][NextScans]_vars

\* the answers of a site that gives one page per address, always the same
StablePages(sku) ==
    {[products |-> {Stock3Rows}, searches |-> {SearchHit(sku)}],
     [products |-> {Stock3Rows}, searches |-> {SearchStatus}],
     [products |-> {StatusResponse}, searches |-> {SearchHit(sku)}],
     [products |-> {RaiseResponse}, searches |-> {SearchHit(sku)}]}

StableSites ==
    {s \in [SKUs -> UNION {StablePages(sku) : sku \in SKUs}] :
        \A sku \in SKUs : s[sku] \in StablePages(sku)}

\* a backend that does not change: one page per address, one xconfig.json
InitStable ==
    /\ sessionValid = FALSE
    /\ xconfigFile \in XconfigFiles
    /\ site \in StableSites
    /\ req = [r \in Reqs |-> IdleReq]
    /\ call = NoCall

NextStable == Serve("r1")

SpecStable == InitStable /\ [][NextStable]_vars

\* the fetches of SKU A can succeed, answer a non-success status, raise, or give
\* a page that does not parse; the other SKUs have one good answer each
OneFailingSite ==
    [sku \in SKUs |->
        IF sku = <<"A">>
        THEN [products |-> {Stock3Rows, StatusResponse, RaiseResponse},
              searches |-> {SearchHit(sku), SearchRaise, SearchNoPrice(sku)}]
        ELSE [products |-> {Stock3Rows}, searches |-> {SearchHit(sku)}]]

InitOneFailing ==
    /\ sessionValid = TRUE
    /\ xconfigFile = XconfigAcme
    /\ site = OneFailingSite
    /\ req = [r \in Reqs |-> IdleReq]
    /\ call = NoCall

NextOneFailing ==
    \/ ServeBatch("r1")
    \/ SessionExpire

SpecOneFailing == InitOneFailing /\ [][NextOneFailing]_vars

\* check_stock(sku), from its first line to its return, on a backend that does not
\* change
check_stock(sku) ==
    LET xconfig == LoadXconfig(xconfigFile)
        response == CHOOSE page \in GetProductPage(sku) : TRUE
        search == CHOOSE page \in GetSearchPage(sku) : TRUE
    IN  IF response.kind = "raise" THEN ExceptRecord(sku)
        ELSE IF response.kind # "ok" THEN FailedRecord(sku)
        ELSE ProductData(sku, StockTotal(response),
                         get_product_info_from_base_url(sku, search), xconfig)

(***************************************************************************)
(* Claims                                                                  *)
(***************************************************************************)
\* the calls of get_products_data that returned a list after a session check or a
\* login that succeeded
Returned(q) ==
    /\ q.kind = "products" /\ q.pc = "done" /\ q.resp.status = 200
    /\ (q.probe = "ok" \/ q.login = "ok")

Count(seq, x) == Cardinality({i \in 1..Len(seq) : seq[i] = x})

SkuOf(records) == [i \in 1..Len(records) |-> records[i].sku]

\* C1: when authentication succeeds, the list get_products_data returns holds
\* exactly one record per element of sku_list: every SKU as often as it was
\* asked for, whatever the fetches of its two pages answered
C1_OneRecordPerSku ==
    \A r \in Reqs :
        Returned(req[r]) =>
            /\ Len(req[r].resp.products) = Len(req[r].sku_list)
            /\ \A sku \in SKUs :
                   Count(SkuOf(req[r].resp.products), sku) = Count(req[r].sku_list, sku)

\* a batch that asked twice for one SKU returned, one fetch having raised and the
\* other having a search page that answered a non-success status
C1_Witness ==
    \E r \in Reqs :
        /\ Returned(req[r])
        /\ Len(req[r].sku_list) = 2 /\ req[r].sku_list[1] = req[r].sku_list[2]
        /\ \E i, j \in 1..Len(req[r].resp.products) :
               /\ req[r].resp.products[i] = ExceptRecord(req[r].sku_list[1])
               /\ req[r].resp.products[j].stock_quantity = 15
               /\ req[r].resp.products[j].brand = <<>>

\* C2: when the session check fails and the login fails too, get_products_data
\* returns the empty list at once: it submits no task and fetches no page
C2_LoginFailureIsEmptyBatch ==
    \A r \in Reqs :
        (req[r].kind = "products" /\ req[r].probe = "failed" /\ req[r].login = "failed")
            => /\ req[r].pc = "done"
               /\ req[r].tasks = <<>>
               /\ req[r].results = <<>>
               /\ req[r].resp = [status |-> 200, body |-> "products", products |-> <<>>]

\* a batch of two SKUs whose login failed after the credentials were posted
C2_Witness ==
    \E r \in Reqs :
        /\ req[r].kind = "products" /\ req[r].probe = "failed" /\ req[r].login = "failed"
        /\ Len(req[r].sku_list) = 2
        /\ req[r].loginPosts = 1

Min(a, b) == IF a < b THEN a ELSE b

\* C6: the tasks of a batch in flight are at most min(m, 100), and a max_workers
\* above 100 gives a pool of 100 and no error response
C6_InFlightBounded ==
    \A r \in Reqs :
        (req[r].kind = "products" /\ req[r].m.given) =>
            /\ Cardinality(Running(req[r])) <= Min(req[r].m.value, MaxWorkersCap)
            /\ req[r].m.value > MaxWorkersCap =>
                   /\ PoolSize(req[r]) = MaxWorkersCap
                   /\ req[r].resp.status \in {0, 200}

\* with max_workers = 1, a task is in flight and another waits for the worker
C6_Witness ==
    \E r \in Reqs :
        /\ req[r].kind = "products" /\ req[r].m.value = 1
        /\ Cardinality(Running(req[r])) = 1
        /\ Queued(req[r]) # {}

\* C7: a call of get_products_data whose session check succeeded fetches no CSRF
\* token and posts no credentials
C7_ValidSessionNoLogin ==
    \A r \in Reqs :
        (req[r].kind = "products" /\ req[r].probe = "ok") =>
            /\ req[r].csrfGets = 0
            /\ req[r].loginPosts = 0
            /\ req[r].login = "none"

\* a batch returned its records over a session that was valid when it began (the
\* session is not valid at the start, so an earlier call or login made it so)
C7_Witness ==
    \E r \in Reqs :
        /\ Returned(req[r]) /\ req[r].probe = "ok"
        /\ Len(req[r].resp.products) = 2

\* the records check_stock has returned: those of the tasks, of the list being
\* collected and of the response
Records(q) ==
    {q.tasks[i].result : i \in Finished(q)}
        \cup Range(q.results) \cup Range(q.resp.products)

\* the tasks whose fetch of the product page failed
FailedFetch(q) ==
    {i \in Finished(q) : q.tasks[i].productPage \in {"status", "raise"}}

\* C3: a product page that answers a non-success status or whose fetch raises
\* gives the zero-valued record with sale_price 0.0, and the search page is not
\* fetched
C3_FailedFetchZeroRecord ==
    \A r \in Reqs : \A i \in FailedFetch(req[r]) :
        /\ req[r].tasks[i].result = FailedRecord(req[r].tasks[i].sku)
        /\ req[r].tasks[i].searchGets = 0

\* C4: in every record of check_stock, stock_status is 1 exactly when
\* stock_quantity is above 0
C4_StatusIffInStock ==
    \A r \in Reqs : \A record \in Records(req[r]) :
        (record.stock_status = 1) <=> (record.stock_quantity > 0)

\* GET /api/product/<sku> answered a record of the normal path whose table summed
\* below zero
C4_Witness ==
    \E r \in Reqs :
        /\ req[r].kind = "product" /\ req[r].pc = "done" /\ req[r].resp.status = 200
        /\ req[r].resp.products[1].stock_quantity < 0
        /\ req[r].resp.products[1].stock_status = 0
        /\ req[r].resp.products[1].brand = <<"A", "c", "m", "e">>

\* C5: stock_quantity is never negative
C5_StockNonNegative ==
    \A r \in Reqs : \A record \in Records(req[r]) : record.stock_quantity >= 0

\* a login step: the fetch of the login page or the POST of the credentials
LoginStep(r) == get_csrf_token(r) \/ login_post(r)

\* C8: no login step runs while a task of a request is in flight
C8_NoLoginWhileInFlight ==
    [][(\E r \in Reqs : LoginStep(r)) => \A r \in Reqs : Running(req[r]) = {}]_vars

\* the tasks of a request that have loaded xconfig.json
Loaded(q) == {i \in 1..Len(q.tasks) : q.tasks[i].st # "queued"}

\* C9: the tasks of one batch all hold the same configuration
C9_OneXconfigPerBatch ==
    \A r \in Reqs : \A i, j \in Loaded(req[r]) :
        req[r].tasks[i].xconfig = req[r].tasks[j].xconfig

\* the records of calling check_stock on each SKU of the request, one at a time
OneAtATime(q) == {check_stock(sku) : sku \in Range(q.sku_list)}

\* get_products_data or get_single_product has returned records to its route
RecordsReturned(q) == q.pc = "done" /\ q.resp.body \in {"products", "product"}

\* C10 as stated: on a backend that does not change, the records get_products_data
\* returns are, as a set, those of check_stock on each SKU one at a time
C10_BatchIsOneAtATime ==
    \A r \in Reqs :
        RecordsReturned(req[r]) =>
            Range(req[r].resp.products) = OneAtATime(req[r])

\* C10, for a request that passed the login check: on a backend that does not
\* change, the records returned are, as a set, those of check_stock on each SKU
\* one at a time, whatever the order of completion and max_workers
C10_LoggedInBatchIsOneAtATime ==
    \A r \in Reqs :
        (RecordsReturned(req[r]) /\ req[r].login # "failed") =>
            Range(req[r].resp.products) = OneAtATime(req[r])

\* a batch of two SKUs whose second task completed first returned two records
C10_Witness ==
    \E r \in Reqs :
        /\ req[r].kind = "products" /\ RecordsReturned(req[r])
        /\ req[r].order = <<2, 1>>
        /\ Len(req[r].resp.products) = 2
        /\ req[r].resp.products[1] # req[r].resp.products[2]

\* the request was authorized, passed the session check or the login, and got a
\* pool: its SKUs were scraped
Scraped(q) ==
    /\ q.kind = "products" /\ q.pc = "done"
    /\ q.resp.body # "unauthorized"
    /\ q.login # "failed"
    /\ ClampWorkers(q.m) > 0

\* C11: a batch whose SKUs were scraped answers 200 with a record per SKU,
\* whatever failed in the tasks; a 5xx answer comes from the pool that could not be
\* made, before any task ran
C11_ScrapingFailureIs200 ==
    \A r \in Reqs :
        /\ Scraped(req[r]) =>
               /\ req[r].resp.status = 200 /\ req[r].resp.body = "products"
               /\ Len(req[r].resp.products) = Len(req[r].sku_list)
               /\ \A sku \in SKUs :
                      Count(SkuOf(req[r].resp.products), sku) = Count(req[r].sku_list, sku)
        /\ (req[r].kind = "products" /\ req[r].pc = "done" /\ req[r].resp.status >= 500)
               => (ClampWorkers(req[r].m) <= 0 /\ req[r].order = <<>>)

\* a batch answered 200 with the record of a fetch that raised, the record of an
\* error status and a record whose price is no number
C11_Witness ==
    \E r \in Reqs :
        /\ Scraped(req[r]) /\ req[r].resp.status = 200
        /\ \E i, j \in 1..Len(req[r].resp.products) :
              /\ req[r].resp.products[i] \in {ExceptRecord(<<"A">>), FailedRecord(<<"A">>)}
              /\ req[r].resp.products[j].sale_price = PyStr(<<"N", "/", "A">>)

\* the one header the spec lets through: "Basic " and the expected token
ExactHeader == <<"Basic", " ", EXPECTED_AUTH>>

\* C12: the wrapper of token_required calls the handler of a protected route
\* exactly when the header is "Basic " followed by the expected token, and answers
\* 401 for every other header and for none
C12_ExactHeaderOnly ==
    [][\A r \in Reqs :
          (req[r].pc = "token_required" /\ req'[r].pc # "token_required") =>
              IF req[r].auth_header = ExactHeader
              THEN req'[r].pc = "is_logged_in"
              ELSE req'[r].pc = "done" /\ req'[r].resp.status = 401]_vars

\* an authorized POST /api/products with "sku_ids": [] was answered
EmptyBatchAnswered(q) ==
    /\ q.kind = "products" /\ q.pc = "done" /\ q.resp.body # "unauthorized"
    /\ q.sku_list = <<>>

\* C13: an authorized POST /api/products with an empty sku_ids answers
\* 200 with an empty products list and count 0, whatever the session does
C13_EmptyBatchIs200 ==
    \A r \in Reqs :
        EmptyBatchAnswered(req[r]) =>
            /\ req[r].resp = [status |-> 200, body |-> "products", products |-> <<>>]
            /\ req[r].count = 0

\* the same for max_workers absent or at least 1; and count is the length of
\* products in every answer of the route
EmptyBatchWithPoolIs200 ==
    \A r \in Reqs :
        /\ (EmptyBatchAnswered(req[r]) /\ (req[r].m.given => req[r].m.value >= 1)) =>
               /\ req[r].resp = [status |-> 200, body |-> "products", products |-> <<>>]
               /\ req[r].count = 0
        /\ (req[r].pc = "done" /\ req[r].resp.body = "products") =>
               req[r].count = Len(req[r].resp.products)

\* a decimal number as the claims mean it: an optional sign, then digits with at
\* most one point among them, and a digit at least
IsDecimalNumber(s) ==
    LET u == IF Len(s) > 0 /\ s[1] \in {"+", "-"} THEN Tail(s) ELSE s
    IN  /\ \A i \in 1..Len(u) : IsDigit(u[i]) \/ u[i] = "."
        /\ Cardinality({i \in 1..Len(u) : u[i] = "."}) <= 1
        /\ \E i \in 1..Len(u) : IsDigit(u[i])

\* the price without the currency symbol, "THB", the commas and the blanks
\* around it
Remainder(price) == Strip(RemoveChar(RemoveTHB(RemoveChar(price, Baht)), ","))

\* the ratio of the claim: the one of the lower-cased, trimmed brand if the brand
\* map has it, the default one otherwise; no brand is "unknown"
ClaimedRatio(brand, config) ==
    LET key == IF brand = <<>> THEN Unknown ELSE Strip(Lower(brand))
    IN  IF key \in DOMAIN config.SP_BRAND_DC_RATIO
        THEN config.SP_BRAND_DC_RATIO[key]
        ELSE config.OTHER_BRAND_DC_RATIO

\* apply_discount was called and has returned
Applied == call.fn = "apply_discount" /\ call.returned

C15_UnparsablePriceUnchanged ==
    (Applied /\ call.price # <<>> /\ ~IsDecimalNumber(Remainder(call.price))) =>
        call.result = PyStr(call.price)

\* "THB1 2" with a config that lacks the brand map came back as it was
C15_Witness ==
    /\ Applied
    /\ call.price = <<"T", "H", "B", "1", " ", "2">>
    /\ call.config = XconfigNoBrands.json
    /\ call.result = PyStr(call.price)

\* the stock column of the claim: the first header cell that holds the label,
\* counted from 0, and 1 when none does
ClaimedColumn(headers) ==
    LET holders == {i \in 1..Len(headers) : IsSubstring(StockLabel, headers[i])}
    IN  IF holders = {} THEN 1
        ELSE (CHOOSE i \in holders : \A j \in holders : i <= j) - 1

\* the last whitespace-delimited token of a text: what follows its last blank,
\* the blanks at its end left out
LastToken(text) ==
    LET ends == {i \in 1..Len(text) : text[i] # " "}
        last == IF ends = {} THEN 0 ELSE CHOOSE i \in ends : \A j \in ends : j <= i
        blanks == {i \in 1..last : text[i] = " "}
        from == IF blanks = {} THEN 0 ELSE CHOOSE i \in blanks : \A j \in blanks : j <= i
    IN  SubSeq(text, from + 1, last)

\* the integer a token stands for, and 0 when it stands for none
TokenValue(token) ==
    LET digits == IF Len(token) > 0 /\ token[1] \in {"+", "-"} THEN Tail(token) ELSE token
    IN  IF Len(digits) > 0 /\ \A i \in 1..Len(digits) : IsDigit(digits[i])
        THEN (IF token[1] = "-" THEN 0 - DecVal(digits) ELSE DecVal(digits))
        ELSE 0

\* the sum of the claim over the first n rows
ClaimedSum[n \in 0..(MaxRows + 1)] ==
    IF n = 0 THEN 0
    ELSE LET row == call.page.rows[n]
             column == ClaimedColumn(call.page.headers)
         IN  ClaimedSum[n - 1]
                 + (IF Len(row) > column THEN TokenValue(LastToken(row[column + 1])) ELSE 0)

\* C16: the stock quantity is the sum, over the rows that have a cell in the stock
\* column, of the integer of the last token of that cell, 0 when it is none; the
\* column is the first header with the label, 1 without one
C16_StockIsSumOfLastTokens ==
    (call.fn = "stock_total" /\ call.returned) =>
        call.result = ClaimedSum[Len(call.page.rows)]

\* a header row, then a row too short for the third column, then " x 5 ": 5
C16_Witness ==
    /\ call.fn = "stock_total" /\ call.returned
    /\ Len(call.page.headers) = 3 /\ call.page.headers[2] = <<"Q">>
    /\ call.page.rows = << <<(<<"7">>)>>, <<(<<"a">>), (<<"a">>), (<<" ", "x", " ", "5", " ">>)>> >>
    /\ call.result = 5

\* C17: the credentials are posted once, after the login page gave a non-empty
\* token, and verified after the POST; without a token login() is false and
\* nothing is posted; and whatever raises, login() is false and POST /login
\* answers 401, never 500
C17_LoginOrder ==
    \A r \in Reqs :
        LET q == req[r]
        IN  /\ q.loginPosts <= q.csrfGets /\ q.csrfGets <= 1
            /\ q.pc = "j_spring_security_check" => (q.csrfGets = 1 /\ q.loginPosts = 0)
            /\ q.loginPosts = 1 =>
                   (q.loginPage.kind = "ok" /\ q.loginPage.hasInput
                        /\ Len(q.loginPage.value) > 0)
            /\ (q.pc = "verify_login" \/ q.login = "ok") => q.loginPosts = 1
            /\ (q.csrfGets = 1 /\ (q.loginPage.kind # "ok" \/ ~q.loginPage.hasInput
                                       \/ q.loginPage.value = <<>>)) =>
                   (q.login = "failed" /\ q.loginPosts = 0 /\ q.pc = "done")
            /\ (q.kind = "login" /\ q.pc = "done") =>
                   /\ q.resp.status \in {200, 401}
                   /\ (q.resp.status = 200) <=> (q.login = "ok")
                   /\ (q.resp.status = 401) <=> (q.login = "failed")

\* POST /login answered 401 on a login page whose token input has an empty value
C17_Witness ==
    \E r \in Reqs :
        /\ req[r].kind = "login" /\ req[r].pc = "done" /\ req[r].resp.status = 401
        /\ req[r].loginPage.kind = "ok" /\ req[r].loginPage.hasInput
        /\ req[r].loginPage.value = <<>>
        /\ req[r].loginPosts = 0

\* the place of task i in the order of completion
Place(q, i) == CHOOSE k \in 1..Len(q.order) : q.order[k] = i

\* C18: the records are collected in the order in which their tasks completed
C18_CollectedInCompletionOrder ==
    \A r \in Reqs :
        \A i, j \in 1..Len(req[r].yielded) :
            i < j => Place(req[r], req[r].yielded[i]) < Place(req[r], req[r].yielded[j])

\* the same for the tasks that completed after as_completed was called
LateInCompletionOrder ==
    \A r \in Reqs :
        \A i, j \in 1..Len(req[r].yielded) :
            (i < j /\ req[r].yielded[j] \notin req[r].snap) =>
                Place(req[r], req[r].yielded[i]) < Place(req[r], req[r].yielded[j])

\* the fetches of the product page of sku made by the tasks of q
ProductGets(q, sku) ==
    Cardinality({i \in 1..Len(q.tasks) : q.tasks[i].sku = sku /\ q.tasks[i].productGets = 1})

\* C19 as stated: the product page of a SKU is fetched at most once per batch
C19_PageFetchedOncePerBatch ==
    \A r \in Reqs : \A sku \in SKUs :
        /\ ProductGets(req[r], sku) <= 1
        /\ \A i \in 1..Len(req[r].tasks) : req[r].tasks[i].productGets <= 1

\* C19: whatever happens to the tasks of SKU A, the record returned for every
\* listing of another SKU is the record of a run without failure, and no task
\* fetches its product page or its search page twice
C19_OthersUnaffectedNoRetry ==
    \A r \in Reqs : LET q == req[r] IN
        /\ \A i \in 1..Len(q.tasks) :
              /\ q.tasks[i].productGets <= 1
              /\ q.tasks[i].searchGets <= 1
              /\ q.tasks[i].productGets = 1 <=> q.tasks[i].productPage # "none"
              /\ q.tasks[i].searchGets = 1 => q.tasks[i].productPage = "ok"
              /\ (q.tasks[i].st = "done" /\ q.tasks[i].sku # <<"A">>) =>
                     q.tasks[i].result = check_stock(q.tasks[i].sku)
        /\ (RecordsReturned(q) /\ q.login # "failed") =>
              \A sku \in SKUs \ {<<"A">>} :
                  \A k \in 1..Len(q.sku_list) :
                      q.sku_list[k] = sku =>
                          /\ Count(SkuOf(q.resp.products), sku) = Count(q.sku_list, sku)
                          /\ \A n \in 1..Len(q.resp.products) :
                                q.resp.products[n].sku = sku =>
                                    q.resp.products[n] = check_stock(sku)

\* a batch of A and another SKU was answered, the task of A having failed
C19_Witness ==
    \E r \in Reqs : LET q == req[r] IN
        /\ RecordsReturned(q) /\ q.kind = "products"
        /\ Len(q.resp.products) = 2
        /\ \E n, k \in 1..2 :
              /\ q.resp.products[n] = ExceptRecord(<<"A">>)
              /\ q.resp.products[k].sku # <<"A">>
              /\ q.resp.products[k] = check_stock(q.resp.products[k].sku)

\* get_products_data returns in this step
ReturnsNow(r) == req[r].pc = "collect" /\ req'[r].pc = "done"

\* the batch of r is dispatched: its tasks are submitted and it has not returned
Dispatched(r) == req[r].kind = "products" /\ req[r].pc \in {"submitted", "collect"}

\* C20: a dispatched batch returns only when every submitted task has finished,
\* with the records collected by then; nothing is added to a returned result; and
\* under fair scheduling every dispatched batch returns
C20_ReturnsAfterAllTasks ==
    /\ [][\A r \in Reqs :
            /\ ReturnsNow(r) =>
                  /\ Len(req[r].tasks) = Len(req[r].sku_list)
                  /\ Finished(req[r]) = 1..Len(req[r].tasks)
                  /\ req'[r].resp.products = req[r].results
            /\ (RecordsReturned(req[r]) /\ req'[r].pc = "done") =>
                  req'[r].resp = req[r].resp]_vars
    /\ \A r \in Reqs : Dispatched(r) ~> RecordsReturned(req[r])

\* a batch of two tasks has returned
C20_Witness ==
    \E r \in Reqs :
        /\ RecordsReturned(req[r]) /\ req[r].kind = "products"
        /\ Len(req[r].order) = 2
        /\ Len(req[r].resp.products) = 2

====
